---- MODULE Spec2Model ----
(***************************************************************************)
(* Model of the 3D camera image editor (App.tsx, CameraViewer,             *)
(* geminiService.ts).                                                      *)
(*                                                                         *)
(* Numbers are fixed point: angles are held in tenths of a degree,         *)
(* distances in hundredths.  The IEEE value NaN is the distinguished       *)
(* value NaN; every arithmetic operator below propagates it the way the    *)
(* JavaScript operator it models does.                                     *)
(***************************************************************************)
EXTENDS Integers, Sequences, FiniteSets, TLC

VARIABLES
  settings,      \* App: the camera pose (state of App)
  viewSettings,  \* InteractiveScene: the settings prop of its last render
  unrendered,    \* control-panel mutations the viewer has not rendered yet
  dragMode,      \* InteractiveScene: "none", "orbit" or "distance"
  editing,       \* EditableNumber: the field whose editor is open, or "none"
  tempValue,     \* EditableNumber: the text of the open editor
  inputImages,   \* App: the reference images
  reads,         \* FileReader reads in flight, per file
  batchSize,     \* App: number of images to generate
  genState,      \* App: isGenerating, error, outputImageUrls (as rendered)
  genQueue,      \* setGenState updates made after an await, not yet rendered
  runs,          \* invocations of handleGenerate: running ones and the last ended
  lastEvent      \* the handler that ran last

poseVars == <<settings, viewSettings, unrendered, dragMode, editing, tempValue>>
genVars == <<inputImages, reads, batchSize, genState, genQueue, runs>>
vars == <<settings, viewSettings, unrendered, dragMode, editing, tempValue,
          inputImages, reads, batchSize, genState, genQueue, runs, lastEvent>>

-----------------------------------------------------------------------------
(* Bounds of the model *)

\* control-panel mutations the viewer may not yet have been re-rendered with
MaxStale == 1

-----------------------------------------------------------------------------
(* Numbers *)

\* tenths per degree, hundredths per distance unit
DegUnit == 10
DistUnit == 100

NaN == -99999

IsNaN(x) == x = NaN

\* Math.min / Math.max: NaN if either argument is NaN
MathMin(a, b) == IF IsNaN(a) \/ IsNaN(b) THEN NaN ELSE IF a < b THEN a ELSE b
MathMax(a, b) == IF IsNaN(a) \/ IsNaN(b) THEN NaN ELSE IF a > b THEN a ELSE b

\* Math.round on a value held in 1/unit steps: floor(x + 0.5), as a whole number
MathRound(x, unit) == IF IsNaN(x) THEN NaN ELSE (2 * x + unit) \div (2 * unit)

\* THREE.MathUtils.clamp(value, min, max) = Math.max(min, Math.min(max, value))
clamp(value, min, max) == MathMax(min, MathMin(max, value))

-----------------------------------------------------------------------------
(* Pose *)

ShotTypes == {"long", "medium", "close", "extreme"}

DefaultSettings ==
  [azimuth |-> 45 * DegUnit, elevation |-> 35 * DegUnit,
   distance |-> 1 * DistUnit, shotType |-> "medium"]

\* shotTypeOptions with the extreme preset raised to the slider minimum
shotTypeOptionsInRange ==
  [long |-> 140, medium |-> 100, close |-> 70, extreme |-> 60]

\* shotTypeOptions: the distance preset of each shot type, in hundredths
shotTypeOptions ==
  [long |-> 140, medium |-> 100, close |-> 70, extreme |-> 50]

\* directions: the angles of the eight clickable preset buttons (the centre
\* entry, angle -1, is rendered as a label without a click handler)
directions == {315, 0, 45, 270, 90, 225, 180, 135}

\* the pose fields that have a numeric editor, with the min / max props of
\* their EditableNumber
Fields == {"azimuth", "elevation", "distance"}
FieldMin == [azimuth |-> 0, elevation |-> -30 * DegUnit, distance |-> 60]
FieldMax == [azimuth |-> 360 * DegUnit, elevation |-> 60 * DegUnit, distance |-> 140]
FieldUnit == [azimuth |-> DegUnit, elevation |-> DegUnit, distance |-> DistUnit]

-----------------------------------------------------------------------------
(* Inputs: the values the user and the rendering surface supply *)

\* slider positions tried (whole degrees; hundredths for the distance slider)
AzimuthSliderInputs == {360}
ElevationSliderInputs == {-30}
DistanceSliderInputs == {85}

\* preset-direction buttons pressed
PresetInputs == {0}

\* what the typed text reads as, in the unit of the edited field: NaN is a
\* text parseFloat cannot read
TypedInputs == {NaN, -1000, 100000}

\* orbit drag: the angles recovered from the hit point, in tenths of a
\* degree: atan2 gives (-180, 180], acos gives [0, 180]
ThetaInputs == {-5, 900}
PhiInputs == {0, 545}

\* zoom drag: numerator (thousandths of a render unit) and denominator
\* 1 - dot^2 (thousandths) of the projection quotient
NumInputs == {-5000, 0}
DenInputs == {0, 1, 1000}

-----------------------------------------------------------------------------
(* Geometry of the drag handlers *)

\* VISUAL_SCALE = 2.5, held in tenths
VISUAL_SCALE == 25

Infinity == 1000000000

Abs(x) == IF x < 0 THEN -x ELSE x

\* the orbit azimuth without the % 360 of the rounded angle
OrbitAzimuthUnwrapped(theta) ==
  LET newAzim == IF theta < 0 THEN theta + 360 * DegUnit ELSE theta
  IN  MathRound(newAzim, DegUnit) * DegUnit

\* azimuth and elevation assigned by the orbit branch from the recovered
\* angles newTheta and newPhi (tenths of a degree)
OrbitAzimuth(theta) ==
  LET newAzim == IF theta < 0 THEN theta + 360 * DegUnit ELSE theta
  IN  (MathRound(newAzim, DegUnit) % 360) * DegUnit

OrbitElevation(phi) ==
  LET newElev == 90 * DegUnit - phi
  IN  clamp(MathRound(newElev, DegUnit), -30, 60) * DegUnit

\* t = num / den of the distance branch, thousandths of a render unit:
\* 0/0 is NaN, x/0 is +-Infinity
ProjectionT(num, den) ==
  IF den = 0
    THEN IF num = 0 THEN NaN ELSE IF num > 0 THEN Infinity ELSE -Infinity
    ELSE (num * 1000) \div den

\* cameraPos.clone().add(currentDir.multiplyScalar(t)).length(), thousandths
\* of a render unit.  cameraPos = radius * currentDir, so the sum is
\* (radius + t) * currentDir.  With t infinite a zero component of currentDir
\* gives 0 * Infinity = NaN; x = radius*sin(phi)*sin(theta) is exactly 0 only
\* for azimuth 0.
ProjectedLength(s, t) ==
  LET radius == s.distance * VISUAL_SCALE
  IN  IF IsNaN(s.distance) \/ IsNaN(t) THEN NaN
      ELSE IF Abs(t) = Infinity
        THEN IF s.azimuth = 0 THEN NaN ELSE Infinity
        ELSE Abs(radius + t)

\* newRadius of the distance branch, hundredths
ZoomDistance(s, num, den) ==
  LET len == ProjectedLength(s, ProjectionT(num, den))
      scaled == IF IsNaN(len) THEN NaN
                ELSE IF len = Infinity THEN Infinity ELSE len \div VISUAL_SCALE
  IN  clamp(scaled, 60, 140)

-----------------------------------------------------------------------------
(* Reference images and generation: values *)

\* files the user can pick
Files == {"a", "b"}

\* files picked in one upload, and FileReader reads in flight at a time
MaxSelect == 2
MaxReads == 3

\* invocations of handleGenerate that can be running at the same time
MaxRuns == 2

\* the counts offered by the batch-size buttons
BatchSizes == 1..4

\* what the generation service answers: a response with an image part, a
\* response without one, a rejected request whose error carries a message,
\* and one whose error carries none
Responses == {"image", "noImage", "rejected", "rejectedNoMessage"}

NoError == "null"
UploadFirstMessage == "upload at least one reference image"
NoImageMessage == "model returned no image"
TransportMessage == "transport error"
FallbackMessage == "render failed, retry"

Min(a, b) == IF a < b THEN a ELSE b

RECURSIVE SeqsUpTo(_, _)
SeqsUpTo(S, n) ==
  IF n = 0 THEN {<< >>}
  ELSE LET shorter == SeqsUpTo(S, n - 1)
       IN  shorter \cup {Append(q, x) : q \in shorter, x \in S}

RECURSIVE SumOver(_, _)
SumOver(f, S) ==
  IF S = {} THEN 0
  ELSE LET x == CHOOSE y \in S : TRUE IN f[x] + SumOver(f, S \ {x})

\* Array.prototype.slice(0, n) for n >= 0
Slice(q, n) == SubSeq(q, 1, Min(Len(q), n))

\* prev.filter((_, i) => i !== index), index counted from 1
RemoveAt(q, index) ==
  [j \in 1..(Len(q) - 1) |-> IF j < index THEN q[j] ELSE q[j + 1]]

InitialGenState ==
  [isGenerating |-> FALSE, error |-> NoError, outputImageUrls |-> << >>]

-----------------------------------------------------------------------------
(* State after construction *)

Init ==
  /\ inputImages = << >>
  /\ reads = [f \in Files |-> 0]
  /\ batchSize = 1
  /\ genState = InitialGenState
  /\ genQueue = << >>
  /\ runs = << >>
  /\ settings = DefaultSettings
  /\ viewSettings = DefaultSettings
  /\ unrendered = 0
  /\ dragMode = "none"
  /\ editing = "none"
  /\ tempValue = 0
  /\ lastEvent = "init"

\* setSettings from the control panel: the App state takes the new pose; the
\* viewer keeps the props of its last render until it renders again
setSettings(new) ==
  /\ unrendered < MaxStale
  /\ settings' = new
  /\ unrendered' = unrendered + 1
  /\ UNCHANGED viewSettings

\* onSettingsChange: setSettings called by the viewer with a whole pose
onSettingsChange(new) ==
  /\ settings' = new
  /\ UNCHANGED <<viewSettings, unrendered>>

ViewerRender ==
  /\ settings # viewSettings
  /\ viewSettings' = settings
  /\ unrendered' = 0
  /\ lastEvent' = "render"
  /\ UNCHANGED <<settings, dragMode, editing, tempValue>>
  /\ UNCHANGED genVars

-----------------------------------------------------------------------------
(* Sliders and buttons of the control panel.  A focused numeric editor loses *)
(* focus, and so commits, before another control is used.                   *)

AzimuthSlider ==
  /\ editing = "none"
  /\ \E v \in AzimuthSliderInputs :
       setSettings([settings EXCEPT !.azimuth = v * DegUnit])
  /\ lastEvent' = "azimuthSlider"
  /\ UNCHANGED <<dragMode, editing, tempValue>>
  /\ UNCHANGED genVars

ElevationSlider ==
  /\ editing = "none"
  /\ \E v \in ElevationSliderInputs :
       setSettings([settings EXCEPT !.elevation = v * DegUnit])
  /\ lastEvent' = "elevationSlider"
  /\ UNCHANGED <<dragMode, editing, tempValue>>
  /\ UNCHANGED genVars

DistanceSlider ==
  /\ editing = "none"
  /\ \E v \in DistanceSliderInputs :
       setSettings([settings EXCEPT !.distance = v])
  /\ lastEvent' = "distanceSlider"
  /\ UNCHANGED <<dragMode, editing, tempValue>>
  /\ UNCHANGED genVars

setGameAngle ==
  /\ editing = "none"
  /\ \E azim \in PresetInputs :
       setSettings([settings EXCEPT !.azimuth = azim * DegUnit,
                                    !.elevation = 35 * DegUnit])
  /\ lastEvent' = "preset"
  /\ UNCHANGED <<dragMode, editing, tempValue>>
  /\ UNCHANGED genVars

ShotTypeButton ==
  /\ editing = "none"
  /\ \E opt \in ShotTypes :
       setSettings([settings EXCEPT !.shotType = opt,
                                    !.distance = shotTypeOptions[opt]])
  /\ lastEvent' = "shotType"
  /\ UNCHANGED <<dragMode, editing, tempValue>>
  /\ UNCHANGED genVars

-----------------------------------------------------------------------------
(* EditableNumber.  One editor has the focus at a time: editing names its   *)
(* field and tempValue is its text, held as the number the text reads as.   *)
(* The text of an editor that is not open follows its value (useEffect) and *)
(* is not stored: tempValue is 0 while no editor is open.                   *)

\* onDoubleClick: the editor opens on Math.round(value).toString()
DoubleClickNumber ==
  /\ editing = "none"
  /\ \E f \in Fields :
       /\ editing' = f
       /\ tempValue' = IF IsNaN(settings[f]) THEN NaN
                       ELSE MathRound(settings[f], FieldUnit[f]) * FieldUnit[f]
  /\ lastEvent' = "dblclick"
  /\ UNCHANGED <<settings, viewSettings, unrendered, dragMode>>
  /\ UNCHANGED genVars

\* onChange of the input
TypeNumber ==
  /\ editing # "none"
  /\ \E txt \in TypedInputs : tempValue' = txt
  /\ lastEvent' = "type"
  /\ UNCHANGED <<settings, viewSettings, unrendered, dragMode, editing>>
  /\ UNCHANGED genVars

\* handleBlur without its clamp
CommittedValueUnclamped(txt, value, min, max) ==
  IF IsNaN(txt) THEN value ELSE txt

\* the value handleBlur hands to onChange
CommittedValue(txt, value, min, max) ==
  LET num == IF IsNaN(txt) THEN value ELSE txt
  IN  MathMin(MathMax(num, min), max)

handleBlur ==
  /\ editing # "none"
  /\ setSettings([settings EXCEPT ![editing] =
        CommittedValue(tempValue, settings[editing],
                       FieldMin[editing], FieldMax[editing])])
  /\ editing' = "none"
  /\ tempValue' = 0
  /\ lastEvent' = "blur"
  /\ UNCHANGED dragMode
  /\ UNCHANGED genVars

-----------------------------------------------------------------------------
(* InteractiveScene: pointer handlers *)

PointerDownCamera ==
  /\ editing = "none"
  /\ dragMode' = "orbit"
  /\ lastEvent' = "downCamera"
  /\ UNCHANGED <<settings, viewSettings, unrendered, editing, tempValue>>
  /\ UNCHANGED genVars

PointerDownDistance ==
  /\ editing = "none"
  /\ dragMode' = "distance"
  /\ lastEvent' = "downDistance"
  /\ UNCHANGED <<settings, viewSettings, unrendered, editing, tempValue>>
  /\ UNCHANGED genVars

\* a pointer-up that leaves the drag mode as it is
PointerUpKeepsMode ==
  /\ editing = "none"
  /\ dragMode' = dragMode
  /\ lastEvent' = "up"
  /\ UNCHANGED <<settings, viewSettings, unrendered, editing, tempValue>>
  /\ UNCHANGED genVars

PointerUp ==
  /\ editing = "none"
  /\ dragMode' = "none"
  /\ lastEvent' = "up"
  /\ UNCHANGED <<settings, viewSettings, unrendered, editing, tempValue>>
  /\ UNCHANGED genVars

PointerLeave ==
  /\ editing = "none"
  /\ dragMode' = "none"
  /\ lastEvent' = "leave"
  /\ UNCHANGED <<settings, viewSettings, unrendered, editing, tempValue>>
  /\ UNCHANGED genVars

\* dragMode none: handlePointerMove returns at once
PointerMoveIdle ==
  /\ editing = "none"
  /\ dragMode = "none"
  /\ lastEvent' = "moveIdle"
  /\ UNCHANGED poseVars
  /\ UNCHANGED genVars

\* the orbit branch without its target.length() > 0 test: the angles are
\* recovered from the zero vector, atan2(0, 0) = 0 and acos(0/0) = NaN
OrbitMoveMissUnguarded ==
  /\ editing = "none"
  /\ dragMode = "orbit"
  /\ onSettingsChange([viewSettings EXCEPT !.azimuth = 0, !.elevation = NaN])
  /\ lastEvent' = "orbitMiss"
  /\ UNCHANGED <<dragMode, editing, tempValue>>
  /\ UNCHANGED genVars

\* orbit branch, intersectSphere finds no point: target stays (0,0,0)
OrbitMoveMiss ==
  /\ editing = "none"
  /\ dragMode = "orbit"
  /\ lastEvent' = "orbitMiss"
  /\ UNCHANGED poseVars
  /\ UNCHANGED genVars

\* orbit branch, the ray hits the sphere (a sphere of radius NaN is never hit)
OrbitMoveHit ==
  /\ editing = "none"
  /\ dragMode = "orbit"
  /\ ~IsNaN(viewSettings.distance)
  /\ \E theta \in ThetaInputs, phi \in PhiInputs :
       onSettingsChange([viewSettings EXCEPT !.azimuth = OrbitAzimuth(theta),
                                             !.elevation = OrbitElevation(phi)])
  /\ lastEvent' = "orbitHit"
  /\ UNCHANGED <<dragMode, editing, tempValue>>
  /\ UNCHANGED genVars

\* distance branch; the event records whether the ray was parallel
\* (denominator 0), nearly parallel or neither
ZoomMove ==
  /\ editing = "none"
  /\ dragMode = "distance"
  /\ \E num \in NumInputs, den \in DenInputs :
       /\ onSettingsChange([viewSettings EXCEPT
                              !.distance = ZoomDistance(viewSettings, num, den)])
       /\ lastEvent' = IF den = 0 THEN "zoomParallel"
                       ELSE IF den < 10 THEN "zoomNearParallel" ELSE "zoom"
  /\ UNCHANGED <<dragMode, editing, tempValue>>
  /\ UNCHANGED genVars

handlePointerMove ==
  \/ PointerMoveIdle
  \/ OrbitMoveMiss
  \/ OrbitMoveHit
  \/ ZoomMove

-----------------------------------------------------------------------------

-----------------------------------------------------------------------------
(* Reference images *)

\* handleFileUpload: the first remainingSlots files are handed to a reader
handleFileUpload ==
  /\ \E files \in SeqsUpTo(Files, MaxSelect) :
       LET remainingSlots == 3 - Len(inputImages)
           filesToProcess == Slice(files, remainingSlots)
           started == [f \in Files |->
                        Cardinality({j \in 1..Len(filesToProcess) :
                                       filesToProcess[j] = f})]
       IN  /\ SumOver(reads, Files) + Len(filesToProcess) <= MaxReads
           /\ reads' = [f \in Files |-> reads[f] + started[f]]
  /\ lastEvent' = "upload"
  /\ UNCHANGED <<inputImages, batchSize, genState, genQueue, runs>>
  /\ UNCHANGED poseVars

\* reader.onload without the slice: setInputImages(prev => [...prev, result])
ReaderOnloadUntruncated ==
  /\ \E f \in Files :
       /\ reads[f] > 0
       /\ reads' = [reads EXCEPT ![f] = reads[f] - 1]
       /\ inputImages' = Append(inputImages, f)
  /\ lastEvent' = "onload"
  /\ UNCHANGED <<batchSize, genState, genQueue, runs>>
  /\ UNCHANGED poseVars

\* reader.onload: setInputImages(prev => [...prev, result].slice(0, 3))
ReaderOnload ==
  /\ \E f \in Files :
       /\ reads[f] > 0
       /\ reads' = [reads EXCEPT ![f] = reads[f] - 1]
       /\ inputImages' = Slice(Append(inputImages, f), 3)
  /\ lastEvent' = "onload"
  /\ UNCHANGED <<batchSize, genState, genQueue, runs>>
  /\ UNCHANGED poseVars

removeImage ==
  /\ \E index \in 1..Len(inputImages) :
       inputImages' = RemoveAt(inputImages, index)
  /\ lastEvent' = "removeImage"
  /\ UNCHANGED <<reads, batchSize, genState, genQueue, runs>>
  /\ UNCHANGED poseVars

setBatchSize ==
  /\ \E num \in BatchSizes : batchSize' = num
  /\ lastEvent' = "batchSize"
  /\ UNCHANGED <<inputImages, reads, genState, genQueue, runs>>
  /\ UNCHANGED poseVars

-----------------------------------------------------------------------------
(* Generation *)

\* generatePrompt, horizontal label: yaw in tenths of a degree, first branch
\* that matches.  This variant puts the 22.5 boundary in the lower sector.
horizontalDescBoundaryLow(yaw) ==
  IF yaw >= 3375 \/ yaw <= 225 THEN "Front view (0 deg)"
  ELSE IF yaw > 225 /\ yaw < 675 THEN "Front-right 45 deg angle"
  ELSE IF yaw >= 675 /\ yaw < 1125 THEN "Right side 90 deg profile"
  ELSE IF yaw >= 1125 /\ yaw < 1575 THEN "Rear-right 135 deg angle"
  ELSE IF yaw >= 1575 /\ yaw < 2025 THEN "Back view 180 deg"
  ELSE IF yaw >= 2025 /\ yaw < 2475 THEN "Rear-left 225 deg angle"
  ELSE IF yaw >= 2475 /\ yaw < 2925 THEN "Left side 270 deg profile"
  ELSE "Front-left 315 deg angle"

\* generatePrompt, horizontal label.  A comparison with NaN is false.
horizontalDesc(yaw) ==
  IF ~IsNaN(yaw) /\ (yaw >= 3375 \/ yaw < 225) THEN "Front view (0 deg)"
  ELSE IF ~IsNaN(yaw) /\ yaw >= 225 /\ yaw < 675
    THEN "Front-right 45 deg angle"
  ELSE IF ~IsNaN(yaw) /\ yaw >= 675 /\ yaw < 1125
    THEN "Right side 90 deg profile"
  ELSE IF ~IsNaN(yaw) /\ yaw >= 1125 /\ yaw < 1575
    THEN "Rear-right 135 deg angle"
  ELSE IF ~IsNaN(yaw) /\ yaw >= 1575 /\ yaw < 2025 THEN "Back view 180 deg"
  ELSE IF ~IsNaN(yaw) /\ yaw >= 2025 /\ yaw < 2475
    THEN "Rear-left 225 deg angle"
  ELSE IF ~IsNaN(yaw) /\ yaw >= 2475 /\ yaw < 2925
    THEN "Left side 270 deg profile"
  ELSE "Front-left 315 deg angle"

\* generatePrompt, vertical label
verticalDesc(pitch) ==
  IF ~IsNaN(pitch) /\ pitch > 450 THEN "Bird's eye view (High overhead)"
  ELSE IF ~IsNaN(pitch) /\ pitch > 150 THEN "High angle shot looking down"
  ELSE IF ~IsNaN(pitch) /\ pitch < -150
    THEN "Low angle hero shot looking up"
  ELSE "Eye-level horizontal view"

\* generatePrompt, the switch on shotType
shotDesc(shotType) ==
  CASE shotType = "long" -> "Wide shot showing more context"
    [] shotType = "medium" -> "Medium shot, standard framing"
    [] shotType = "close" -> "Close-up shot focusing on detail"
    [] shotType = "extreme" -> "Extreme close-up macro detail"
    [] OTHER -> ""

\* generatePrompt: the parts of the template string that depend on the pose
generatePrompt(s) ==
  [yaw |-> s.azimuth, pitch |-> s.elevation,
   horizontalDesc |-> horizontalDesc(s.azimuth),
   verticalDesc |-> verticalDesc(s.elevation),
   shotDesc |-> shotDesc(s.shotType)]

\* generateAngledImage: the url of the first image part of the response, or
\* the error thrown.  The url of a call is its number within its batch.
generateAngledImage(response, callNo) ==
  CASE response = "image" ->
         [ok |-> TRUE, url |-> callNo, message |-> ""]
    [] response = "noImage" ->
         [ok |-> FALSE, url |-> 0, message |-> NoImageMessage]
    [] response = "rejected" ->
         [ok |-> FALSE, url |-> 0, message |-> TransportMessage]
    [] response = "rejectedNoMessage" ->
         [ok |-> FALSE, url |-> 0, message |-> ""]

\* the four setGenState updaters of handleGenerate
EmptyInputUpdate(prev) == [prev EXCEPT !.error = UploadFirstMessage]

\* the start update without outputImageUrls: []
StartUpdateKeepsOutputs(prev) ==
  [prev EXCEPT !.isGenerating = TRUE, !.error = NoError]

StartUpdate(prev) ==
  [prev EXCEPT !.isGenerating = TRUE, !.error = NoError,
               !.outputImageUrls = << >>]

SuccessUpdate(prev, results) ==
  [prev EXCEPT !.outputImageUrls = results, !.isGenerating = FALSE]

\* the catch update without isGenerating: false
CatchUpdateKeepsFlag(prev, message) ==
  [prev EXCEPT !.error = IF message # "" THEN message ELSE FallbackMessage]

CatchUpdate(prev, message) ==
  [prev EXCEPT !.isGenerating = FALSE,
               !.error = IF message # "" THEN message ELSE FallbackMessage]

ApplyUpdate(prev, u) ==
  IF u.kind = "success" THEN SuccessUpdate(prev, u.results)
  ELSE CatchUpdate(prev, u.message)

\* a generate button disabled only for want of images
GenerateDisabledWithoutFlag == Len(inputImages) = 0

\* the disabled attribute of the generate button
GenerateDisabled == genState.isGenerating \/ Len(inputImages) = 0

\* results.unshift(url)
Unshift(results, url) == <<url>> \o results

\* results.push(url)
Push(results, url) == Append(results, url)

IsRunning(run) == run.status = "running"

\* the user presses the generate button while it is disabled: the browser
\* delivers no click
GenerateClickDisabled ==
  /\ GenerateDisabled
  /\ lastEvent' = "generateDisabled"
  /\ UNCHANGED genVars
  /\ UNCHANGED poseVars

\* handleGenerate up to its first await: the start update is rendered with
\* the click, the loop is entered and the first request is issued
handleGenerate ==
  /\ ~GenerateDisabled
  /\ IF Len(inputImages) = 0
       THEN /\ genState' = EmptyInputUpdate(genState)
            /\ UNCHANGED runs
       ELSE /\ Len(SelectSeq(runs, IsRunning)) < MaxRuns
            /\ genState' = StartUpdate(genState)
            /\ runs' = Append(SelectSeq(runs, IsRunning),
                              [n |-> batchSize, i |-> 0, results |-> << >>,
                               calls |-> <<"pending">>, status |-> "running",
                               prompt |-> generatePrompt(settings)])
  /\ lastEvent' = "generate"
  /\ UNCHANGED <<inputImages, reads, batchSize, genQueue>>
  /\ UNCHANGED poseVars

\* the awaited call of a running batch settles and handleGenerate continues
\* to its next await or to its end
GenerationSettles ==
  /\ \E r \in 1..Len(runs), response \in Responses :
       LET run == runs[r]
           callNo == Len(run.calls)
           res == generateAngledImage(response, callNo)
           results == Push(run.results, res.url)
           i == run.i + 1
       IN  /\ IsRunning(run)
           /\ IF res.ok
                THEN IF i < run.n
                  THEN /\ runs' = [runs EXCEPT ![r] =
                              [run EXCEPT !.i = i, !.results = results,
                                 !.calls = Append([run.calls EXCEPT ![callNo] = "ok"],
                                                  "pending")]]
                       /\ UNCHANGED genQueue
                  ELSE /\ runs' = [runs EXCEPT ![r] =
                              [run EXCEPT !.i = i, !.results = results,
                                 !.calls = [run.calls EXCEPT ![callNo] = "ok"],
                                 !.status = "succeeded"]]
                       /\ genQueue' = Append(genQueue,
                              [kind |-> "success", results |-> results,
                               message |-> ""])
                ELSE /\ runs' = [runs EXCEPT ![r] =
                            [run EXCEPT
                               !.calls = [run.calls EXCEPT ![callNo] = "failed"],
                               !.status = "failed"]]
                     /\ genQueue' = Append(genQueue,
                            [kind |-> "catch", results |-> << >>,
                             message |-> res.message])
  /\ lastEvent' = "settled"
  /\ UNCHANGED <<inputImages, reads, batchSize, genState>>
  /\ UNCHANGED poseVars

\* React renders the oldest update made after an await
RenderGenState ==
  /\ genQueue # << >>
  /\ genState' = ApplyUpdate(genState, Head(genQueue))
  /\ genQueue' = Tail(genQueue)
  /\ lastEvent' = "renderGenState"
  /\ UNCHANGED <<inputImages, reads, batchSize, runs>>
  /\ UNCHANGED poseVars

NextGen ==
  \/ handleFileUpload
  \/ ReaderOnload
  \/ removeImage
  \/ setBatchSize
  \/ GenerateClickDisabled
  \/ handleGenerate
  \/ GenerationSettles
  \/ RenderGenState

SpecGen == Init /\ [][NextGen]_vars

-----------------------------------------------------------------------------

NextPose ==
  \/ AzimuthSlider
  \/ ElevationSlider
  \/ DistanceSlider
  \/ setGameAngle
  \/ ShotTypeButton
  \/ DoubleClickNumber
  \/ TypeNumber
  \/ handleBlur
  \/ PointerDownCamera
  \/ PointerDownDistance
  \/ PointerUp
  \/ PointerLeave
  \/ PointerMoveIdle
  \/ OrbitMoveMiss
  \/ OrbitMoveHit
  \/ ZoomMove
  \/ ViewerRender

SpecPose == Init /\ [][NextPose]_vars

-----------------------------------------------------------------------------
(* The prompt composer over a grid of poses *)

\* the grid: every azimuth in [0, 360) and every elevation in [-30, 60], in
\* tenths of a degree
PromptAzimuths == 0..(360 * DegUnit - 1)
PromptElevations == (-30 * DegUnit)..(60 * DegUnit)

\* the values on both sides of every threshold of the other axis
BoundaryAzimuths == {0, 224, 225, 3374, 3375, 3599}
BoundaryElevations == {-300, -151, -150, 150, 151, 450, 451, 600}

PromptPoses ==
  {[azimuth |-> a, elevation |-> e, distance |-> 100, shotType |-> "medium"] :
     a \in PromptAzimuths, e \in BoundaryElevations}
  \cup
  {[azimuth |-> a, elevation |-> e, distance |-> 100, shotType |-> t] :
     a \in BoundaryAzimuths, e \in PromptElevations, t \in {"long", "extreme"}}

\* one reference image is loaded and the pose, typed into the numeric
\* editors, has been rendered
InitPrompt ==
  /\ inputImages = <<"a">>
  /\ reads = [f \in Files |-> 0]
  /\ batchSize = 1
  /\ genState = InitialGenState
  /\ genQueue = << >>
  /\ runs = << >>
  /\ settings \in PromptPoses
  /\ viewSettings = settings
  /\ unrendered = 0
  /\ dragMode = "none"
  /\ editing = "none"
  /\ tempValue = 0
  /\ lastEvent = "init"

NextPrompt ==
  \/ handleGenerate
  \/ GenerationSettles
  \/ RenderGenState

SpecPrompt == InitPrompt /\ [][NextPrompt]_vars

-----------------------------------------------------------------------------
(* Batches run to their end *)

\* one reference image is loaded
InitLoaded ==
  /\ inputImages = <<"a">>
  /\ reads = [f \in Files |-> 0]
  /\ batchSize = 1
  /\ genState = InitialGenState
  /\ genQueue = << >>
  /\ runs = << >>
  /\ settings = DefaultSettings
  /\ viewSettings = DefaultSettings
  /\ unrendered = 0
  /\ dragMode = "none"
  /\ editing = "none"
  /\ tempValue = 0
  /\ lastEvent = "init"

NextBatch ==
  \/ removeImage
  \/ setBatchSize
  \/ GenerateClickDisabled
  \/ handleGenerate
  \/ GenerationSettles
  \/ RenderGenState

\* every call to the generation service returns or fails, and React renders
\* every update it has queued
SpecBatch ==
  /\ InitLoaded
  /\ [][NextBatch]_vars
  /\ WF_vars(GenerationSettles)
  /\ WF_vars(RenderGenState)

-----------------------------------------------------------------------------
(* Properties of the pose and of the drag controller, under SpecPose *)

\* C1 as stated: in every reachable state 0 <= azimuth < 360
C1_AzimuthBelow360 ==
  0 <= settings.azimuth /\ settings.azimuth < 360 * DegUnit

\* C1 amended: in every state reachable by pose mutations the stored azimuth
\* satisfies 0 <= azimuth <= 360; the azimuth slider and the numeric edit
\* store 360 itself
C1_AzimuthWithin360 ==
  0 <= settings.azimuth /\ settings.azimuth <= 360 * DegUnit

C1_SliderStores360 ==
  lastEvent = "azimuthSlider" /\ settings.azimuth = 360 * DegUnit

\* C2: in every state reachable by pose mutations 0.6 <= distance <= 1.4
C2_DistanceInRange ==
  60 <= settings.distance /\ settings.distance <= 140

\* C3 as stated: the drag mode is none initially, becomes orbit only by a
\* pointer-down on the camera handle while none, becomes distance only by a
\* pointer-down on the distance handle while none, every pointer-up and
\* pointer-leave sets it to none, and no other event changes it
C3_TransitionsFromNoneOnly ==
  /\ dragMode = "none"
  /\ [][ /\ (dragMode' = "orbit" /\ dragMode # "orbit")
              => (lastEvent' = "downCamera" /\ dragMode = "none")
         /\ (dragMode' = "distance" /\ dragMode # "distance")
              => (lastEvent' = "downDistance" /\ dragMode = "none")
         /\ lastEvent' \in {"up", "leave"} => dragMode' = "none"
         /\ dragMode' # dragMode
              => lastEvent' \in {"downCamera", "downDistance", "up", "leave"}
       ]_vars

\* C3 amended: the drag mode is none initially, becomes orbit only by a
\* pointer-down on the camera handle and distance only by a pointer-down on
\* the distance handle, in both cases whatever the current mode; every
\* pointer-down on a handle sets the mode of that handle, every pointer-up
\* and pointer-leave sets none, and no other event changes the mode
C3_TransitionsFromAnyMode ==
  /\ dragMode = "none"
  /\ [][ /\ (dragMode' = "orbit" /\ dragMode # "orbit")
              => lastEvent' = "downCamera"
         /\ (dragMode' = "distance" /\ dragMode # "distance")
              => lastEvent' = "downDistance"
         /\ lastEvent' = "downCamera" => dragMode' = "orbit"
         /\ lastEvent' = "downDistance" => dragMode' = "distance"
         /\ lastEvent' \in {"up", "leave"} => dragMode' = "none"
         /\ dragMode' # dragMode
              => lastEvent' \in {"downCamera", "downDistance", "up", "leave"}
       ]_vars

C3_ReleasedAfterDrag ==
  lastEvent = "up" /\ dragMode = "none" /\ settings # DefaultSettings

\* C8: an orbit-drag move whose ray misses the sphere leaves the pose
\* unchanged, leaves the drag mode orbit and reports no error
C8_OrbitMissIsNoOp ==
  [][ lastEvent' = "orbitMiss"
        => /\ settings' = settings
           /\ dragMode = "orbit" /\ dragMode' = "orbit"
           /\ genState'.error = genState.error
    ]_vars

C8_MissWhileOrbiting ==
  lastEvent = "orbitMiss" /\ dragMode = "orbit"

\* C11: committing a numeric edit stores a number within [min, max] of the
\* field: a text that is not a number keeps the value of the field, a number
\* below min stores min, a number above max stores max, a number within the
\* range stores that number
C11_CommitAlwaysAccepted ==
  [][ lastEvent' = "blur"
        => LET f == editing
               v == settings'[f]
           IN  /\ ~IsNaN(v)
               /\ FieldMin[f] <= v /\ v <= FieldMax[f]
               /\ IsNaN(tempValue) => v = settings[f]
               /\ (~IsNaN(tempValue) /\ tempValue < FieldMin[f])
                    => v = FieldMin[f]
               /\ (~IsNaN(tempValue) /\ tempValue > FieldMax[f])
                    => v = FieldMax[f]
    ]_vars

C14_OrbitHitWholeDegrees ==
  [][ lastEvent' = "orbitHit"
        => /\ settings'.azimuth % DegUnit = 0
           /\ 0 <= settings'.azimuth /\ settings'.azimuth <= 359 * DegUnit
           /\ settings'.elevation % DegUnit = 0
           /\ -30 * DegUnit <= settings'.elevation
           /\ settings'.elevation <= 60 * DegUnit
    ]_vars

\* an angle of 359.5 degrees was rounded to 360 and stored as 0, an elevation
\* of 90 degrees was clamped to 60
C14_RoundedTo360StoredAs0 ==
  /\ lastEvent = "orbitHit"
  /\ settings.azimuth = 0
  /\ settings.elevation = 60 * DegUnit

\* C15: an orbit-drag move leaves distance and shotType as they were stored
\* when the update is applied, and a zoom-drag move leaves azimuth, elevation
\* and shotType as they were stored, also when the viewer has not yet
\* rendered the latest pose
C15_DragKeepsOtherFields ==
  [][ /\ lastEvent' = "orbitHit"
           => /\ settings'.distance = settings.distance
              /\ settings'.shotType = settings.shotType
      /\ lastEvent' \in {"zoom", "zoomParallel", "zoomNearParallel"}
           => /\ settings'.azimuth = settings.azimuth
              /\ settings'.elevation = settings.elevation
              /\ settings'.shotType = settings.shotType
    ]_vars

\* C16: opening the numeric editor of a field and committing it without
\* typing leaves the pose unchanged
C16_OpenAndCommitIsIdentity ==
  [][ (lastEvent = "dblclick" /\ lastEvent' = "blur") => settings' = settings
    ]_vars

\* C9: a zoom-drag move whose ray is parallel or nearly parallel to the
\* camera direction leaves the pose unchanged, and the stored distance is
\* then a number within [0.6, 1.4]
C9_ParallelZoomIsNoOp ==
  [][ lastEvent' \in {"zoomParallel", "zoomNearParallel"}
        => /\ settings' = settings
           /\ ~IsNaN(settings'.distance)
           /\ 60 <= settings'.distance /\ settings'.distance <= 140
    ]_vars

-----------------------------------------------------------------------------
(* Properties of batch generation, under SpecGen *)

PendingCalls(run) == {j \in 1..Len(run.calls) : run.calls[j] = "pending"}

\* C4: when call k of a batch of N fails, the batch has issued exactly the
\* calls 1..k, each once (calls 1..k-1 returned, call k failed, none after
\* it, no retry); the visible output list is empty although k-1 results were
\* collected; and once the failure is rendered an error message is shown and
\* isGenerating is false
C4_FailedBatchShowsNothing ==
  \A r \in 1..Len(runs) :
    LET run == runs[r]
        k == Len(run.calls)
    IN  run.status = "failed" =>
          /\ 1 <= k /\ k <= run.n
          /\ run.calls[k] = "failed"
          /\ \A j \in 1..(k - 1) : run.calls[j] = "ok"
          /\ Len(run.results) = k - 1
          /\ genState.outputImageUrls = << >>
          /\ genQueue = << >> =>
                genState.error # NoError /\ ~genState.isGenerating

C4_SecondOfThreeFailed ==
  /\ lastEvent = "renderGenState"
  /\ genQueue = << >>
  /\ \E r \in 1..Len(runs) :
       /\ runs[r].status = "failed"
       /\ runs[r].n = 3
       /\ Len(runs[r].calls) = 2
       /\ Len(runs[r].results) = 1

\* C5: within a batch at most one request is in flight; the request in
\* flight is the last one issued and was issued after every earlier request
\* returned and its result was appended; a batch of N that succeeds holds
\* the results of calls 1..N in the order of the calls, and these are the
\* output list once the success is rendered
C5_OneRequestAtATime ==
  \A r \in 1..Len(runs) :
    LET run == runs[r]
    IN  /\ Cardinality(PendingCalls(run)) <= 1
        /\ \A j \in PendingCalls(run) :
              /\ j = Len(run.calls)
              /\ Len(run.results) = j - 1
              /\ \A h \in 1..(j - 1) : run.calls[h] = "ok"
        /\ \A j \in 1..Len(run.results) : run.results[j] = j
        /\ run.status = "succeeded" =>
              /\ Len(run.calls) = run.n
              /\ Len(run.results) = run.n
              /\ genQueue = << >> => genState.outputImageUrls = run.results

C5_BatchOfThreeShown ==
  /\ lastEvent = "renderGenState"
  /\ genState.outputImageUrls = <<1, 2, 3>>
  /\ \E r \in 1..Len(runs) : runs[r].status = "succeeded" /\ runs[r].n = 3

\* C6: at most one batch is outstanding in every reachable state, and a
\* generate action is accepted only while no batch is outstanding
C6_OneBatchOutstanding ==
  /\ Cardinality({r \in 1..Len(runs) : IsRunning(runs[r])}) <= 1
  /\ lastEvent = "generate" =>
        Len(runs) = 1 /\ (genState.isGenerating \/ genQueue # << >>)

C6_ClickRefusedDuringBatch ==
  /\ lastEvent = "generateDisabled"
  /\ Len(inputImages) > 0
  /\ \E r \in 1..Len(runs) : IsRunning(runs[r])

\* C7: while a batch is running, after j of its requests have completed the
\* visible output list has length j (the overlay shows item j + 1 of N)
C7_ProgressAdvances ==
  \A r \in 1..Len(runs) :
    IsRunning(runs[r]) => Len(genState.outputImageUrls) = runs[r].i

\* C10: a generate action with zero reference images issues no call, leaves
\* isGenerating false, reports an error message and leaves the pose unchanged
C10_EmptyInputReported ==
  [][ ( /\ lastEvent' \in {"generate", "generateDisabled"}
        /\ Len(inputImages) = 0
        /\ ~genState.isGenerating )
        => /\ runs' = runs
           /\ ~genState'.isGenerating
           /\ genState'.error # NoError
           /\ settings' = settings
    ]_vars

\* C17: the list of reference images never holds more than 3 entries,
\* whatever the interleaving of uploads, file-read completions and removals
C17_AtMostThreeImages == Len(inputImages) <= 3

\* a read completed on a full list while another read is still in flight:
\* the uploads together started more reads than there were free slots
C17_FullListReadInFlight ==
  /\ lastEvent = "onload"
  /\ Len(inputImages) = 3
  /\ SumOver(reads, Files) > 0

-----------------------------------------------------------------------------
(* Properties of the prompt composer, under SpecPrompt *)

HorizontalLabels ==
  <<"Front view (0 deg)", "Front-right 45 deg angle",
    "Right side 90 deg profile", "Rear-right 135 deg angle",
    "Back view 180 deg", "Rear-left 225 deg angle",
    "Left side 270 deg profile", "Front-left 315 deg angle">>

\* the 45-degree sector centred on 0/45/.../315 that holds the azimuth, a
\* boundary at a midpoint belonging to the higher sector
ReferenceHorizontal(azimuth) ==
  HorizontalLabels[(((azimuth + 225) \div 450) % 8) + 1]

\* the vertical labels whose band holds the elevation
ReferenceVertical(elevation) ==
  {l \in {"Bird's eye view (High overhead)", "High angle shot looking down",
          "Eye-level horizontal view", "Low angle hero shot looking up"} :
     \/ l = "Bird's eye view (High overhead)" /\ elevation > 450
     \/ l = "High angle shot looking down"
          /\ 150 < elevation /\ elevation <= 450
     \/ l = "Eye-level horizontal view"
          /\ -150 <= elevation /\ elevation <= 150
     \/ l = "Low angle hero shot looking up" /\ elevation < -150}

\* C13: for every pose with azimuth in [0, 360) and elevation in [-30, 60]
\* the prompt composed by a generate action is that of the pose and carries
\* the horizontal label of the reference sector and the one vertical label
\* whose band holds the elevation
C13_PromptLabels ==
  /\ lastEvent = "generate" /\ runs # << >> =>
        /\ runs[Len(runs)].prompt.yaw = settings.azimuth
        /\ runs[Len(runs)].prompt.pitch = settings.elevation
  /\ \A r \in 1..Len(runs) :
       LET p == runs[r].prompt
       IN  (p.yaw \in PromptAzimuths /\ p.pitch \in PromptElevations) =>
             /\ p.horizontalDesc = ReferenceHorizontal(p.yaw)
             /\ ReferenceVertical(p.pitch) = {p.verticalDesc}

\* a prompt composed for azimuth 22.5 and elevation 45, both on a boundary
C13_BoundaryPose ==
  /\ lastEvent = "generate"
  /\ runs # << >>
  /\ runs[Len(runs)].prompt.yaw = 225
  /\ runs[Len(runs)].prompt.pitch = 450
  /\ runs[Len(runs)].prompt.horizontalDesc = "Front-right 45 deg angle"
  /\ runs[Len(runs)].prompt.verticalDesc = "High angle shot looking down"

-----------------------------------------------------------------------------
(* Properties of batch termination, under SpecBatch *)

\* the batch has ended: isGenerating is false and either an error is shown
\* or the output list is the full result list of a batch that succeeded
BatchEnded ==
  /\ ~genState.isGenerating
  /\ \/ genState.error # NoError
     \/ \E r \in 1..Len(runs) :
          /\ runs[r].status = "succeeded"
          /\ genState.outputImageUrls = runs[r].results
          /\ Len(genState.outputImageUrls) = runs[r].n

\* C18: every started batch eventually ends: whenever isGenerating is true
\* it eventually becomes false again with the full result list or an error
\* shown, provided every call to the generation service returns or fails
C18_BatchEventuallyEnds == genState.isGenerating ~> BatchEnded

\* a batch of four whose third call failed has ended with an error shown
C18_BatchOfFourEndedInError ==
  /\ lastEvent = "renderGenState"
  /\ ~genState.isGenerating
  /\ genState.error # NoError
  /\ genQueue = << >>
  /\ \E r \in 1..Len(runs) :
       /\ runs[r].status = "failed"
       /\ runs[r].n = 4
       /\ Len(runs[r].calls) = 3

TypeOKPose ==
  /\ settings.shotType \in ShotTypes
  /\ dragMode \in {"none", "orbit", "distance"}
  /\ editing \in Fields \cup {"none"}
  /\ unrendered \in 0..MaxStale

====
